---- MODULE Spec2Model ----
(***************************************************************************)
(* State-machine model of src/main.py (message relay bot).                 *)
(*                                                                         *)
(* State: the four fields of BotData (admin_ids, groups, user_context,     *)
(* user_messages) and, for observation, the update being handled (ev) with *)
(* the transport calls the handler completed for it, in order (outbox).    *)
(*                                                                         *)
(* One action per update the dispatcher of main() hands to a handler; the  *)
(* action is the whole handler. While ev is an update, the handler's calls *)
(* for it stand in outbox; Return ends the update (ev is Idle again and    *)
(* outbox is empty), and the next update is taken from Idle. ev records    *)
(* the inputs the handler's path read, so that two updates the handler     *)
(* cannot tell apart are one state.                                        *)
(* A transport call that raises is an input of the action (F: the chats    *)
(* the transport cannot deliver to, among the chats the handler sends to   *)
(* other than the one the update came from; fail: the callback-query       *)
(* method that raises); what the handler does with it is translated from   *)
(* its try/except blocks. updates counts the updates taken, up to          *)
(* MaxUpdates.                                                             *)
(*                                                                         *)
(* Callback data is modelled as the sequence of fields that                *)
(* data.split('_') yields; numbers in it are decimal text (ToString) and   *)
(* are parsed back by int() (ParseInt).                                    *)
(***************************************************************************)
EXTENDS Integers, Sequences, FiniteSets, TLC

\* ---- bounds of the model ----
NumUsers == 3
NumGroups == 2
MaxMsgId == 1
MaxAdmins == 2
MaxUpdates == 3

Users == 1..NumUsers
GroupIds == 101..(100 + NumGroups)
MsgIds == 1..MaxMsgId
Titles == {"Ops", "Dev"}
Texts == {"hello"}
\* The media kinds a message can carry; "text" is a message with message.text set.
MediaKinds == {"photo", "document", "video", "voice", "audio", "sticker"}
Kinds == {"text"} \cup MediaKinds
\* Absent optional id (Python None) for message ids.
NoId == 0

VARIABLES admin_ids, groups, user_context, user_messages, ev, outbox, updates

vars == <<admin_ids, groups, user_context, user_messages, ev, outbox, updates>>

\* ---- helpers ----
Range(s) == {s[i] : i \in DOMAIN s}

\* `x in list`
InList(x, s) == x \in Range(s)

\* dict.pop(key, None) / dict without key
DictPop(d, k) == [x \in (DOMAIN d) \ {k} |-> d[x]]

\* d[k] = v
DictSet(d, k, v) == [x \in (DOMAIN d) \cup {k} |-> IF x = k THEN v ELSE d[x]]

\* int(s): the number whose decimal text is s, or "ValueError"
IsNumeral(s) == \E n \in Users \cup GroupIds \cup MsgIds : ToString(n) = s
ParseInt(s) == CHOOSE n \in Users \cup GroupIds \cup MsgIds : ToString(n) = s

\* A completed transport call.
Call(op, chat, kind, body, reply_to, markup) ==
    [op |-> op, chat |-> chat, kind |-> kind, body |-> body,
     reply_to |-> reply_to, markup |-> markup]

\* bot.send_message / message.reply_text
SendText(chat, body, reply_to, markup) ==
    Call("send", chat, "text", body, reply_to, markup)

\* bot.send_photo / send_document / getattr(bot, f"send_{media_type}")
SendMedia(chat, kind, body, reply_to, markup) ==
    Call("send", chat, kind, body, reply_to, markup)

\* No update is being handled.
Idle == [type |-> "idle"]

\* The state after module import, main() and init_bot_data: the list of
\* administrators is read from ADMIN_IDS; the three dicts are empty.
Init ==
    /\ admin_ids \in {<<1>>, <<1, 2>>}
    /\ groups = <<>>
    /\ user_context = <<>>
    /\ user_messages = <<>>
    /\ ev = Idle
    /\ outbox = <<>>
    /\ updates = 0

\* datetime.now() while an update is handled: the clock advances between
\* updates, so the reading is modelled by the number of the update.
now == updates + 1

\* run_polling takes the next update.
TakeUpdate ==
    /\ ev.type = "idle"
    /\ updates < MaxUpdates
    /\ updates' = updates + 1

\* The handler has returned: run_polling goes on to the next update.
Return ==
    /\ ev.type # "idle"
    /\ ev' = Idle
    /\ outbox' = <<>>
    /\ UNCHANGED <<admin_ids, groups, user_context, user_messages, updates>>

\* dict.get(key, default)
Get(d, k, default) == IF k \in DOMAIN d THEN d[k] ELSE default

\* `user.id in bot_data.admin_ids`
IsAdmin(u) == InList(u, admin_ids)

\* ---- callback queries: handle_button_click ----

\* The callback data the bot itself attaches to messages.
ReplyUserData(t) == <<"reply", "user", ToString(t)>>
GroupReplyData(g) == <<"group", "reply", ToString(g)>>
UserReplyData(g, m) == <<"user", "reply", ToString(g), ToString(m)>>
SelectGroupData(g) == <<"select", "group", ToString(g)>>

\* The callback data a callback query may carry: the four well-formed
\* shapes, and malformed ones (a non-numeric id, a missing field, no tag).
Payloads ==
    {ReplyUserData(t) : t \in Users}
    \cup {GroupReplyData(g) : g \in GroupIds}
    \cup {UserReplyData(g, m) : g \in GroupIds, m \in MsgIds}
    \cup {SelectGroupData(g) : g \in GroupIds}
    \cup {<<"reply", "user", "abc">>, <<"group", "reply", "">>,
          <<"user", "reply", ToString(101)>>, <<"junk">>}

\* data.startswith(a + '_' + b + '_')
StartsWith(data, a, b) == Len(data) >= 3 /\ data[1] = a /\ data[2] = b

\* The acknowledgements and edits of a callback query.
Answer(u, text) == Call("answer", u, "text", <<text>>, NoId, <<>>)
EditMarkupNone(u) == Call("edit_markup", u, "", <<>>, NoId, <<>>)
DeleteMessage(u) == Call("delete", u, "", <<>>, NoId, <<>>)

\* The transport calls a handler can see raise.
ButtonFails == {"none", "answer", "edit_markup", "delete"}

\* The calls of `calls` completed before the first one whose method raises.
RECURSIVE Completed(_, _)
Completed(calls, failop) ==
    IF calls = <<>> \/ Head(calls).op = failop THEN <<>>
    ELSE <<Head(calls)>> \o Completed(Tail(calls), failop)

\* next(t for t in ['photo','document','video','audio','voice'] if getattr(original_msg, t, None)), None)
\* okind is the kind of query.message.reply_to_message, "none" when there is none.
ContentTypeOf(okind) ==
    IF okind \in {"photo", "document", "video", "audio", "voice"} THEN okind ELSE "none"

\* The file_id expression of lines 298-300 raises TypeError for a media
\* object that is not a list: only message.photo is a list of sizes.
FileIdRaises(ctype) == ctype \in {"video", "audio", "voice"}
FileIdOf(ctype) == IF ctype = "none" THEN "none" ELSE "file"

\* The dict written for each control. Its 'timestamp' entry, which no code
\* reads, is left out.
ReplyToUserContext(t) ==
    [action |-> "reply_to_user", target_user_id |-> t]
GroupContext(g) ==
    [group_id |-> g, reply_type |-> "group"]
UserContext(g, m, okind) ==
    [group_id |-> g, message_id |-> m, reply_type |-> "user",
     content_type |-> ContentTypeOf(okind),
     file_id |-> FileIdOf(ContentTypeOf(okind))]

\* A write that keeps the fields of the previous dict that the new one lacks
\* (dict.update in place of assignment).
MergeContext(ctx, a, rec) ==
    IF a \in DOMAIN ctx
    THEN DictSet(ctx, a, [k \in (DOMAIN ctx[a]) \cup (DOMAIN rec) |->
                            IF k \in DOMAIN rec THEN rec[k] ELSE ctx[a][k]])
    ELSE DictSet(ctx, a, rec)

\* bot_data.user_context[user.id] = {...}
WriteContext(ctx, a, rec) == DictSet(ctx, a, rec)

\* A permission check that lets everyone through.
ButtonPermittedAll(u) == TRUE

\* lines 255-257: `if user.id not in bot_data.admin_ids: answer; return`
ButtonPermitted(u) == IsAdmin(u)

\* A branch for the buttons of /send that records the chosen group as a
\* pending 'send_to_group' action.
SelectGroupHandled(u, data) ==
    IF StartsWith(data, "select", "group") /\ IsNumeral(data[3])
    THEN [ctx |-> WriteContext(user_context, u,
                      [action |-> "send_to_group", group_id |-> ParseInt(data[3])]),
          calls |-> <<Answer(u, "enter_group_message"), DeleteMessage(u)>>,
          raised |-> FALSE]
    ELSE [ctx |-> user_context, calls |-> <<DeleteMessage(u)>>, raised |-> FALSE]

\* Data that none of the three startswith tests of lines 259-280 matches
\* (select_group_<id> among them): nothing is written or answered, and
\* control reaches query.delete_message() at line 309.
UnmatchedData(u, data) ==
    [ctx |-> user_context, calls |-> <<DeleteMessage(u)>>, raised |-> FALSE]

\* The body of the try block for an administrator: the new user_context,
\* the calls the block goes on to make, and whether it raised by itself
\* (int() of a non-number, the file_id expression).
ButtonTry(u, data, okind) ==
    IF StartsWith(data, "reply", "user") THEN
        IF ~IsNumeral(data[3])
        THEN [ctx |-> user_context, calls |-> <<>>, raised |-> TRUE]
        ELSE [ctx |-> WriteContext(user_context, u, ReplyToUserContext(ParseInt(data[3]))),
              calls |-> <<Answer(u, "enter_reply"), EditMarkupNone(u), DeleteMessage(u)>>,
              raised |-> FALSE]
    ELSE IF StartsWith(data, "group", "reply") THEN
        IF ~IsNumeral(data[3])
        THEN [ctx |-> user_context, calls |-> <<>>, raised |-> TRUE]
        ELSE [ctx |-> WriteContext(user_context, u, GroupContext(ParseInt(data[3]))),
              calls |-> <<Answer(u, "enter_group_message"), DeleteMessage(u)>>,
              raised |-> FALSE]
    ELSE IF StartsWith(data, "user", "reply") THEN
        IF Len(data) >= 4 THEN
            IF ~IsNumeral(data[3]) \/ ~IsNumeral(data[4])
               \/ FileIdRaises(ContentTypeOf(okind))
            THEN [ctx |-> user_context, calls |-> <<>>, raised |-> TRUE]
            ELSE [ctx |-> WriteContext(user_context, u,
                              UserContext(ParseInt(data[3]), ParseInt(data[4]), okind)),
                  calls |-> <<Answer(u, "enter_reply"), DeleteMessage(u)>>,
                  raised |-> FALSE]
        ELSE [ctx |-> user_context,
              calls |-> <<Answer(u, "failed"), DeleteMessage(u)>>,
              raised |-> FALSE]
    ELSE UnmatchedData(u, data)

\* Whether the try block reads query.message.reply_to_message (line 285).
ReadsOriginal(u, data) ==
    /\ ButtonPermitted(u)
    /\ StartsWith(data, "user", "reply")
    /\ Len(data) >= 4
    /\ IsNumeral(data[3]) /\ IsNumeral(data[4])

\* handle_button_click: the new user_context, the completed calls, whether
\* a transport call raised, and whether an exception left the handler (the
\* answer in the except block at line 312 is not itself guarded).
handle_button_click(u, data, okind, fail) ==
    IF ~ButtonPermitted(u) THEN
        [ctx |-> user_context,
         out |-> Completed(<<Answer(u, "need_admin")>>, fail),
         hit |-> (fail = "answer"),
         escaped |-> (fail = "answer")]
    ELSE
        LET t == ButtonTry(u, data, okind)
            done == Completed(t.calls, fail)
            hit == Len(done) < Len(t.calls)
            failed == t.raised \/ hit
        IN  [ctx |-> t.ctx,
             out |-> IF failed THEN done \o Completed(<<Answer(u, "failed")>>, fail)
                     ELSE done,
             hit |-> (hit \/ (failed /\ fail = "answer")),
             escaped |-> (failed /\ fail = "answer")]

\* A callback query arrives (CallbackQueryHandler, line 615).
ButtonClick ==
    \E u \in Users, data \in Payloads, fail \in ButtonFails :
    \E okind \in IF ReadsOriginal(u, data) THEN {"none"} \cup Kinds ELSE {"none"} :
        LET r == handle_button_click(u, data, okind, fail) IN
        /\ TakeUpdate
        /\ user_context' = r.ctx
        /\ outbox' = r.out
        /\ ev' = [type |-> "button", user |-> u, data |-> data,
                  okind |-> IF ReadsOriginal(u, data) THEN okind ELSE "none",
                  fail |-> IF r.hit THEN fail ELSE "none",
                  escaped |-> r.escaped,
                  replaced |-> (u \in DOMAIN user_context /\ u \in DOMAIN r.ctx
                                /\ r.ctx[u] # user_context[u])]
        /\ UNCHANGED <<admin_ids, groups, user_messages>>

\* ---- private messages ----

\* The user ids held by filters.User(bot_data.admin_ids) of the first
\* private-chat handler. main() builds the filter from the list that
\* BotData.__init__ created, which is empty then; init_bot_data later binds
\* bot_data.admin_ids to a new list and add_admin appends to that one, so
\* the filter never holds an id (and a User filter with no id matches no
\* update).
AdminFilterIds == {}

\* The inbound messages: id, kind and text (message.text, or the caption of
\* a media message). Whether a message is a reply to another one
\* (message.reply_to_message) is passed apart, as is_reply.
Messages == [message_id : MsgIds, kind : Kinds, text : Texts]

\* forwarded.message_id, the id the transport gives a forwarded copy.
ForwardedId == MaxMsgId

\* user.full_name
FullName(u) == "user" \o ToString(u)

\* `media[-1].file_id` for a media object that is not a list raises
\* TypeError; `media.file_id` is used for a document only (lines 179, 231).
MediaFileIdRaises(kind) == kind \notin {"photo", "document"}

\* The copy message.forward(chat) delivers.
Forward(chat, m) == Call("forward", chat, m.kind, <<m.text>>, NoId, <<>>)

\* The body of the loops at lines 165-189 and 217-241: for each
\* administrator in list order, forward the message and send the caption
\* `body` with the buttons `markup` under the forwarded copy; an exception
\* (the chat is in F, or the file_id expression) ends that administrator's
\* turn only. F is the set of chats the transport cannot deliver to.
RECURSIVE FanOut(_, _, _, _, _)
FanOut(admins, F, m, body, markup) ==
    IF admins = <<>> THEN <<>>
    ELSE LET a == Head(admins) IN
         (IF a \in F THEN <<>>
          ELSE <<Forward(a, m)>> \o
               (IF m.kind = "text" THEN <<SendText(a, body, ForwardedId, markup)>>
                ELSE IF MediaFileIdRaises(m.kind) THEN <<>>
                ELSE <<SendMedia(a, m.kind, body, ForwardedId, markup)>>))
         \o FanOut(Tail(admins), F, m, body, markup)

\* The entry written to bot_data.user_messages ('username' and 'timestamp',
\* which no code reads, are left out).
UserMessageEntry(u, m) == [name |-> FullName(u), last_message |-> m.message_id]

\* forward_private_message. ct_ok: whether reading message.content_type
\* (line 198) yields a value; the attribute is not one the source defines,
\* and where the transport's Message class lacks it the read raises
\* AttributeError, which the outer except logs.
forward_private_message(u, m, ct_ok, F) ==
    IF ~ct_ok \/ IsAdmin(u)
    THEN [ctx |-> user_context, um |-> user_messages, out |-> <<>>]
    ELSE [ctx |-> user_context,
          um |-> DictSet(user_messages, u, UserMessageEntry(u, m)),
          out |-> FanOut(admin_ids, F, m,
                         <<"from_user", FullName(u), ToString(u)>>,
                         <<ReplyUserData(u)>>)
                  \o (IF u \in F THEN <<>>
                      ELSE <<SendText(u, <<"forwarded_to_admins">>, NoId, <<>>)>>)]

\* Line 319 formats `user.id` into the log line, and process_admin_reply
\* has no local, parameter or module global named `user`: the line raises
\* NameError on every call, which the except at line 396 logs.
LogLineRaises == TRUE

\* Lines 321-395 of process_admin_reply, the part after the log line.
process_admin_reply_body(a, m, F) ==
    LET context_data == Get(user_context, a, <<>>) IN
    IF DOMAIN context_data = {} THEN
        [ctx |-> user_context,
         out |-> IF a \in F THEN <<>> ELSE <<SendText(a, <<"session_expired">>, NoId, <<>>)>>]
    ELSE IF Get(context_data, "action", "none") = "reply_to_user" THEN
        LET t == context_data.target_user_id
            name == Get(Get(user_messages, t, <<>>), "name", "unknown_user")
            send == IF m.kind = "text"
                    THEN <<SendText(t, <<"admin_reply", m.text>>, NoId, <<>>)>>
                    ELSE IF m.kind \in {"photo", "document"}
                    THEN <<SendMedia(t, m.kind, <<"admin_reply", m.text>>, NoId, <<>>)>>
                    ELSE <<>>
        IN  [ctx |-> DictPop(user_context, a),
             out |-> IF send # <<>> /\ t \in F
                     THEN (IF a \in F THEN <<>>
                           ELSE <<SendText(a, <<"send_failed">>, NoId, <<>>)>>)
                     ELSE send \o (IF a \in F THEN <<>>
                                   ELSE <<SendText(a, <<"reply_sent_to_user", name>>, NoId, <<>>)>>)]
    ELSE
        LET group_id == Get(context_data, "group_id", NoId) IN
        IF group_id \notin DOMAIN groups THEN
            [ctx |-> user_context,
             out |-> IF a \in F THEN <<>>
                     ELSE <<SendText(a, <<"target_group_invalid">>, NoId, <<>>)>>]
        ELSE
            LET reply_to_id == Get(context_data, "message_id", NoId)
                send == IF m.kind = "text"
                        THEN <<SendText(group_id, <<m.text>>, reply_to_id, <<>>)>>
                        ELSE IF m.kind = "photo"
                        THEN <<SendMedia(group_id, "photo", <<m.text>>, reply_to_id, <<>>)>>
                        ELSE IF m.kind = "document"
                        THEN <<SendMedia(group_id, "document", <<>>, reply_to_id, <<>>)>>
                        ELSE <<>>
            IN  [ctx |-> DictPop(user_context, a),
                 out |-> IF send # <<>> /\ group_id \in F
                         THEN (IF a \in F THEN <<>>
                               ELSE <<SendText(a, <<"send_failed">>, NoId, <<>>)>>)
                         ELSE send \o (IF a \in F THEN <<>>
                                       ELSE <<SendText(a, <<"sent_to_group">>, NoId, <<>>)>>)]

\* process_admin_reply
process_admin_reply(a, m, F) ==
    IF LogLineRaises THEN [ctx |-> user_context, out |-> <<>>]
    ELSE process_admin_reply_body(a, m, F)

\* handle_admin_private_message (ct_ok as in forward_private_message, for
\* the read at line 540).
handle_admin_private_message(a, m, is_reply, ct_ok, F) ==
    LET context_data == Get(user_context, a, <<>>)
        action == Get(context_data, "action", "none")
    IN
    IF ~ct_ok THEN [ctx |-> user_context, out |-> <<>>]
    ELSE IF action = "reply_to_user" THEN process_admin_reply(a, m, F)
    ELSE IF action = "send_to_group" THEN
        LET group_id == context_data.group_id
            send == IF m.kind = "text"
                    THEN <<SendText(group_id, <<m.text>>, NoId, <<>>)>>
                    ELSE IF m.kind = "photo"
                    THEN <<SendMedia(group_id, "photo", <<m.text>>, NoId, <<>>)>>
                    ELSE IF m.kind = "document"
                    THEN <<SendMedia(group_id, "document", <<>>, NoId, <<>>)>>
                    ELSE <<>>
        IN  IF (send # <<>> /\ group_id \in F) \/ a \in F
            THEN [ctx |-> user_context,
                  out |-> (IF send # <<>> /\ group_id \in F THEN <<>> ELSE send)
                          \o (IF a \in F THEN <<>>
                              ELSE <<SendText(a, <<"send_failed">>, NoId, <<>>)>>)]
            ELSE [ctx |-> DictPop(user_context, a),
                  out |-> send \o <<SendText(a, <<"sent_to_group">>, NoId, <<>>)>>]
    ELSE IF is_reply /\ a \in DOMAIN user_context THEN process_admin_reply(a, m, F)
    ELSE [ctx |-> user_context,
          out |-> IF a \in F THEN <<>> ELSE <<SendText(a, <<"help">>, NoId, <<>>)>>]

\* A private message that is not a command: main() hands it to
\* handle_admin_private_message when the User filter matches, and to
\* forward_private_message otherwise (lines 607-614). ev.pending is the
\* sender's entry of user_context when the message arrives.
PrivateMessage ==
    \E u \in Users, m \in Messages, ct_ok \in BOOLEAN :
    \E is_reply \in IF u \in AdminFilterIds THEN BOOLEAN ELSE {FALSE} :
    \E F \in IF ct_ok /\ (u \in AdminFilterIds \/ ~IsAdmin(u))
              THEN SUBSET (IF u \in AdminFilterIds THEN Users \cup GroupIds
                           ELSE Range(admin_ids))
              ELSE {{}} :
        LET admin == u \in AdminFilterIds
            r == IF admin
                 THEN [um |-> user_messages]
                      @@ handle_admin_private_message(u, m, is_reply, ct_ok, F)
                 ELSE forward_private_message(u, m, ct_ok, F)
        IN
        /\ TakeUpdate
        /\ user_context' = r.ctx
        /\ user_messages' = r.um
        /\ outbox' = r.out
        /\ ev' = [type |-> "private", user |-> u, msg |-> m,
                  handler |-> IF admin THEN "handle_admin_private_message"
                              ELSE "forward_private_message",
                  is_reply |-> is_reply, ct_ok |-> ct_ok, F |-> F,
                  pending |-> Get(user_context, u, <<>>)]
        /\ UNCHANGED <<admin_ids, groups>>

\* ---- group messages ----

\* A handler that enters every group it hears from into the registry.
RegisterOnMessage(g) ==
    [groups |-> DictSet(groups, g, [chat_id |-> g, title |-> "Ops", last_activity |-> now]),
     out |-> <<>>]

\* lines 145-147: a message of a group that is not in bot_data.groups is
\* logged and the handler returns.
IgnoreUnregistered(g) == [groups |-> groups, out |-> <<>>]

\* handle_group_message: the new registry and the completed calls (ct_ok:
\* the read of message.content_type at line 143).
handle_group_message(g, m, ct_ok, F) ==
    IF ~ct_ok THEN [groups |-> groups, out |-> <<>>]
    ELSE IF g \notin DOMAIN groups THEN IgnoreUnregistered(g)
    ELSE [groups |-> [groups EXCEPT ![g].last_activity = now],
          out |-> FanOut(admin_ids, F, m, <<"from", groups[g].title>>,
                         <<GroupReplyData(g), UserReplyData(g, m.message_id)>>)]

\* A message in a group chat that is neither a command nor a
\* new-members notice (line 606).
GroupMessage ==
    \E g \in GroupIds, m \in Messages, ct_ok \in BOOLEAN :
    \E F \in IF ct_ok /\ g \in DOMAIN groups THEN SUBSET Range(admin_ids) ELSE {{}} :
        LET r == handle_group_message(g, m, ct_ok, F) IN
        /\ TakeUpdate
        /\ groups' = r.groups
        /\ outbox' = r.out
        /\ ev' = [type |-> "group", chat |-> g, msg |-> m, ct_ok |-> ct_ok, F |-> F]
        /\ UNCHANGED <<admin_ids, user_context, user_messages>>

\* ---- the bot joins a group ----

\* GroupConfig(chat_id, title)
GroupConfig(g, title) == [chat_id |-> g, title |-> title, last_activity |-> now]

\* The notices of lines 122-129, one per administrator the transport reaches.
RECURSIVE NotifyAdmins(_, _, _)
NotifyAdmins(admins, F, body) ==
    IF admins = <<>> THEN <<>>
    ELSE (IF Head(admins) \in F THEN <<>>
          ELSE <<SendText(Head(admins), body, NoId, <<>>)>>)
         \o NotifyAdmins(Tail(admins), F, body)

\* A join handler that enters the group into the registry before it looks
\* at the bot's permissions.
RegisterBeforeCheck(g, title, permitted, F) ==
    [groups |-> DictSet(groups, g, GroupConfig(g, title)),
     out |-> IF ~permitted
             THEN (IF g \in F THEN <<>>
                   ELSE <<SendText(g, <<"need_admin_rights">>, NoId, <<>>),
                          Call("leave_chat", g, "", <<>>, NoId, <<>>)>>)
             ELSE NotifyAdmins(admin_ids, F, <<"new_group", title, ToString(g)>>)
                  \o (IF g \in F THEN <<>>
                      ELSE <<SendText(g, <<"forwarding_active">>, NoId, <<>>)>>)]

\* handle_new_chat_members for a notice that lists the bot itself.
\* permitted: the result of verify_bot_permissions (the bot's member status
\* is "administrator"; False also when get_member raises).
handle_new_chat_members(g, title, permitted, F) ==
    IF ~permitted
    THEN [groups |-> groups,
          out |-> IF g \in F THEN <<>>
                  ELSE <<SendText(g, <<"need_admin_rights">>, NoId, <<>>),
                         Call("leave_chat", g, "", <<>>, NoId, <<>>)>>]
    ELSE [groups |-> DictSet(groups, g, GroupConfig(g, title)),
          out |-> NotifyAdmins(admin_ids, F, <<"new_group", title, ToString(g)>>)
                  \o (IF g \in F THEN <<>>
                      ELSE <<SendText(g, <<"forwarding_active">>, NoId, <<>>)>>)]

\* A new-members notice in a group (line 605). Without the bot among the
\* new members the loop body does nothing.
NewChatMembers ==
    \E g \in GroupIds, title \in Titles, has_bot \in BOOLEAN :
    \E permitted \in IF has_bot THEN BOOLEAN ELSE {FALSE} :
    \E F \in IF has_bot THEN SUBSET (Range(admin_ids) \cup {g}) ELSE {{}} :
        LET r == IF has_bot THEN handle_new_chat_members(g, title, permitted, F)
                 ELSE [groups |-> groups, out |-> <<>>]
        IN
        /\ TakeUpdate
        /\ groups' = r.groups
        /\ outbox' = r.out
        /\ ev' = [type |-> "new_members", chat |-> g, title |-> title,
                  has_bot |-> has_bot, permitted |-> permitted, F |-> F]
        /\ UNCHANGED <<admin_ids, user_context, user_messages>>

\* ---- commands ----

\* message.reply_text(body) in the chat of user u; when it raises inside a
\* handler whose except block replies again, that reply raises as well.
Reply(u, F, body, markup) ==
    IF u \in F THEN <<>> ELSE <<SendText(u, body, NoId, markup)>>

\* The registered ids in increasing order (the model does not keep the
\* insertion order of the dict).
RECURSIVE SortedIds(_)
SortedIds(S) ==
    IF S = {} THEN <<>>
    ELSE LET x == CHOOSE y \in S : \A z \in S : y <= z
         IN  <<x>> \o SortedIds(S \ {x})

\* The keyboard of lines 414-420.
RECURSIVE SelectKeyboard(_)
SelectKeyboard(ids) ==
    IF ids = <<>> THEN <<>>
    ELSE <<SelectGroupData(Head(ids))>> \o SelectKeyboard(Tail(ids))

\* The arguments of /send and /addadmin: none, a non-number, an id alone,
\* an id with a text.
SendArgs ==
    {<<>>, <<"abc">>}
    \cup {<<ToString(g)>> : g \in GroupIds}
    \cup {<<ToString(g), t>> : g \in GroupIds, t \in Texts}
AdminArgs == {<<>>, <<"abc">>} \cup {<<ToString(n)>> : n \in Users}

\* A permission check that lets everyone through.
SendPermittedAll(u) == TRUE

\* lines 405-407: `if user.id not in bot_data.admin_ids: reply; return`
SendPermitted(u) == IsAdmin(u)

\* send_to_group. The text is ' '.join(args[1:]); the transport refuses an
\* empty text, so /send <id> alone raises at line 435.
send_to_group(u, args, F) ==
    IF ~SendPermitted(u) THEN Reply(u, F, <<"need_admin">>, <<>>)
    ELSE IF args = <<>> THEN
        IF DOMAIN groups = {} THEN Reply(u, F, <<"no_groups">>, <<>>)
        ELSE Reply(u, F, <<"choose_group">>, SelectKeyboard(SortedIds(DOMAIN groups)))
    ELSE IF ~IsNumeral(args[1]) THEN Reply(u, F, <<"group_id_not_a_number">>, <<>>)
    ELSE IF ParseInt(args[1]) \notin DOMAIN groups
         THEN Reply(u, F, <<"invalid_group_id">>, <<>>)
    ELSE IF Len(args) < 2 \/ ParseInt(args[1]) \in F
         THEN Reply(u, F, <<"send_failed">>, <<>>)
    ELSE <<SendText(ParseInt(args[1]), <<args[2]>>, NoId, <<>>)>>
         \o Reply(u, F, <<"sent_to_group", groups[ParseInt(args[1])].title>>, <<>>)

\* The command /send (line 601).
SendToGroup ==
    \E u \in Users, args \in SendArgs :
    \E F \in SUBSET (IF SendPermitted(u) /\ Len(args) >= 2 /\ IsNumeral(args[1])
                     THEN {ParseInt(args[1])} \cap DOMAIN groups ELSE {}) :
        /\ TakeUpdate
        /\ outbox' = send_to_group(u, args, F)
        /\ ev' = [type |-> "send", user |-> u, args |-> args, F |-> F]
        /\ UNCHANGED <<admin_ids, groups, user_context, user_messages>>

\* A membership test that never finds the id.
NeverAlreadyAdmin(id) == FALSE

\* line 486: `new_admin_id not in bot_data.admin_ids`, negated
AlreadyAdmin(id) == InList(id, admin_ids)

\* add_admin: the new list and the reply.
add_admin(u, args, F) ==
    IF ~IsAdmin(u) THEN [admins |-> admin_ids, out |-> Reply(u, F, <<"need_admin">>, <<>>)]
    ELSE IF args = <<>> THEN [admins |-> admin_ids, out |-> Reply(u, F, <<"usage">>, <<>>)]
    ELSE IF ~IsNumeral(args[1])
         THEN [admins |-> admin_ids, out |-> Reply(u, F, <<"invalid_user_id">>, <<>>)]
    ELSE IF ~AlreadyAdmin(ParseInt(args[1]))
         THEN [admins |-> Append(admin_ids, ParseInt(args[1])),
               out |-> Reply(u, F, <<"admin_added", args[1]>>, <<>>)]
    ELSE [admins |-> admin_ids, out |-> Reply(u, F, <<"already_admin">>, <<>>)]

\* The command /addadmin (line 604); the list is kept to MaxAdmins entries.
AddAdmin ==
    \E u \in Users, args \in AdminArgs :
        LET r == add_admin(u, args, {}) IN
        /\ TakeUpdate
        /\ Len(r.admins) <= MaxAdmins
        /\ admin_ids' = r.admins
        /\ outbox' = r.out
        /\ ev' = [type |-> "addadmin", user |-> u, args |-> args]
        /\ UNCHANGED <<groups, user_context, user_messages>>

\* start: the greeting for an administrator, or for anyone else.
start(u) ==
    IF IsAdmin(u) THEN Reply(u, {}, <<"bot_ready_admin_commands">>, <<>>)
    ELSE Reply(u, {}, <<"hello_forwarded_to_admins">>, <<>>)

\* The command /start (line 600).
Start ==
    \E u \in Users :
        /\ TakeUpdate
        /\ outbox' = start(u)
        /\ ev' = [type |-> "start", user |-> u]
        /\ UNCHANGED <<admin_ids, groups, user_context, user_messages>>

\* The lines of lines 461-468: title, id and last activity of each group.
RECURSIVE GroupLines(_)
GroupLines(ids) ==
    IF ids = <<>> THEN <<>>
    ELSE <<groups[Head(ids)].title, ToString(groups[Head(ids)].chat_id),
           ToString(groups[Head(ids)].last_activity)>>
         \o GroupLines(Tail(ids))

\* list_groups
list_groups(u) ==
    IF ~IsAdmin(u) THEN Reply(u, {}, <<"need_admin">>, <<>>)
    ELSE IF DOMAIN groups = {} THEN Reply(u, {}, <<"no_groups_joined">>, <<>>)
    ELSE Reply(u, {}, <<"managed_groups">> \o GroupLines(SortedIds(DOMAIN groups)), <<>>)

\* The command /groups (line 602).
ListGroups ==
    \E u \in Users :
        /\ TakeUpdate
        /\ outbox' = list_groups(u)
        /\ ev' = [type |-> "groups", user |-> u]
        /\ UNCHANGED <<admin_ids, groups, user_context, user_messages>>

\* max((g.last_activity for g in bot_data.groups.values()), default='none')
LastActive ==
    IF DOMAIN groups = {} THEN "none"
    ELSE ToString(CHOOSE t \in {groups[g].last_activity : g \in DOMAIN groups} :
                      \A g \in DOMAIN groups : groups[g].last_activity <= t)

\* check_message_status: nothing for a non-administrator; for an
\* administrator the counts of the three dicts and the latest activity,
\* then the tail of the log file, or a notice when the file cannot be read
\* or sent (log_ok).
check_message_status(u, log_ok) ==
    IF ~IsAdmin(u) THEN <<>>
    ELSE Reply(u, {}, <<"status", ToString(Cardinality(DOMAIN groups)),
                        ToString(Cardinality(DOMAIN user_context)),
                        ToString(Cardinality(DOMAIN user_messages)),
                        LastActive>>, <<>>)
         \o (IF log_ok THEN Reply(u, {}, <<"recent_log">>, <<>>)
             ELSE Reply(u, {}, <<"cannot_read_log">>, <<>>))

\* The command /status (line 603).
CheckStatus ==
    \E u \in Users :
    \E log_ok \in IF IsAdmin(u) THEN BOOLEAN ELSE {TRUE} :
        /\ TakeUpdate
        /\ outbox' = check_message_status(u, log_ok)
        /\ ev' = [type |-> "status", user |-> u, log_ok |-> log_ok]
        /\ UNCHANGED <<admin_ids, groups, user_context, user_messages>>

Next ==
    \/ Return
    \/ Start
    \/ ListGroups
    \/ CheckStatus
    \/ ButtonClick
    \/ PrivateMessage
    \/ GroupMessage
    \/ NewChatMembers
    \/ SendToGroup
    \/ AddAdmin

Spec == Init /\ [][Next]_vars

\* ---- properties ----

\* The calls of the update being handled.
Calls == Range(outbox)
SendsTo(chat) == {c \in Calls : c.op = "send" /\ c.chat = chat}
ForwardsTo(chat) == {c \in Calls : c.op = "forward" /\ c.chat = chat}
Admins == Range(admin_ids)
InBody(token, c) == token \in Range(c.body)
InMarkup(data, c) == data \in Range(c.markup)

\* The update being handled is a callback query of an administrator that
\* activates a reply control: well-formed data whose ids are numbers and,
\* for the reply-to-message control, an original message whose file_id
\* expression does not raise.
ActivatesUser == StartsWith(ev.data, "reply", "user") /\ IsNumeral(ev.data[3])
ActivatesGroup == StartsWith(ev.data, "group", "reply") /\ IsNumeral(ev.data[3])
ActivatesGroupMessage ==
    /\ StartsWith(ev.data, "user", "reply") /\ Len(ev.data) >= 4
    /\ IsNumeral(ev.data[3]) /\ IsNumeral(ev.data[4])
    /\ ev.okind \notin {"video", "audio", "voice"}

\* C1: after a control activation by administrator a, a's entry of the
\* pending-action store is exactly the action that activation encodes:
\* target kind, target id and thread message id are those of the latest
\* activation, and the entry has no field beyond those the activation
\* writes, whatever entry a had before (the entry is overwritten, nothing
\* of an earlier pending action survives).
C1_LastActivationWins ==
    (ev.type = "button" /\ ev.user \in Admins) =>
        /\ ActivatesUser =>
            /\ ev.user \in DOMAIN user_context
            /\ DOMAIN user_context[ev.user] = {"action", "target_user_id"}
            /\ user_context[ev.user].action = "reply_to_user"
            /\ ToString(user_context[ev.user].target_user_id) = ev.data[3]
        /\ ActivatesGroup =>
            /\ ev.user \in DOMAIN user_context
            /\ DOMAIN user_context[ev.user] = {"group_id", "reply_type"}
            /\ user_context[ev.user].reply_type = "group"
            /\ ToString(user_context[ev.user].group_id) = ev.data[3]
        /\ ActivatesGroupMessage =>
            /\ ev.user \in DOMAIN user_context
            /\ DOMAIN user_context[ev.user] =
                   {"group_id", "message_id", "reply_type", "content_type", "file_id"}
            /\ user_context[ev.user].reply_type = "user"
            /\ ToString(user_context[ev.user].group_id) = ev.data[3]
            /\ ToString(user_context[ev.user].message_id) = ev.data[4]

\* C1 witness: an administrator's activation of a reply-to-user control has
\* replaced a different pending action of the same administrator.
C1_Witness ==
    /\ ev.type = "button" /\ ev.user \in Admins /\ ActivatesUser
    /\ ev.replaced
    /\ user_context[ev.user].action = "reply_to_user"

\* The update being handled is a private message of an administrator.
AdminPrivate == ev.type = "private" /\ ev.user \in Admins
HadPending == DOMAIN ev.pending # {}
SupportedKinds == {"text", "photo", "document", "video", "voice", "audio"}

\* C2: once a private message of an administrator who had a pending action
\* has been handled, the administrator has no pending action (so that a
\* message sent straight afterwards finds none).
C2_PendingConsumed ==
    (AdminPrivate /\ HadPending) => ev.user \notin DOMAIN user_context

\* C3: a text message of an administrator whose pending action is 'reply to
\* group' for a registered group g sends exactly one message with that text
\* to g, confirms to the administrator with g's title, and leaves the
\* administrator without a pending action.
C3_ReplyToGroup ==
    (/\ AdminPrivate /\ HadPending /\ ev.msg.kind = "text"
     /\ DOMAIN ev.pending = {"group_id", "reply_type"}
     /\ ev.pending.group_id \in DOMAIN groups) =>
        /\ Cardinality({i \in DOMAIN outbox :
               /\ outbox[i].op = "send" /\ outbox[i].chat = ev.pending.group_id
               /\ outbox[i].body = <<ev.msg.text>>}) = 1
        /\ \E c \in SendsTo(ev.user) : InBody(groups[ev.pending.group_id].title, c)
        /\ ev.user \notin DOMAIN user_context

\* An administrator has the forwarded copy and, under it, a message with
\* the caption token `token` and the controls `controls`.
Received(a, token, controls) ==
    /\ ForwardsTo(a) # {}
    /\ \E c \in SendsTo(a) :
        /\ InBody(token, c)
        /\ \A d \in controls : InMarkup(d, c)

\* C4 (stated for the updates whose content_type read yields a value, which
\* leaves the claim's cases with a text or media message of each kind):
\* a message of a supported kind in a registered group reaches every
\* administrator the transport delivers to, with the group's title and the
\* reply-to-group and reply-to-message controls, and the group's
\* last-activity is the time of this update.
C4_GroupFanOut ==
    (/\ ev.type = "group" /\ ev.chat \in DOMAIN groups /\ ev.ct_ok
     /\ ev.msg.kind \in SupportedKinds) =>
        /\ \A a \in Admins \ ev.F :
               Received(a, groups[ev.chat].title,
                        {GroupReplyData(ev.chat),
                         UserReplyData(ev.chat, ev.msg.message_id)})
        /\ groups[ev.chat].last_activity = updates

\* C5 (for the updates whose content_type read yields a value): a private
\* message of a non-administrator, of whatever kind, reaches every
\* administrator the transport delivers to, with a reply-to-user control
\* for the sender, and the sender's name and the message id are in the
\* user-message cache; a private message of an administrator is not
\* forwarded.
C5_PrivateFanOut ==
    /\ (ev.type = "private" /\ ev.user \notin Admins /\ ev.ct_ok) =>
        /\ \A a \in Admins \ ev.F :
               Received(a, FullName(ev.user), {ReplyUserData(ev.user)})
        /\ ev.user \in DOMAIN user_messages
        /\ user_messages[ev.user].name = FullName(ev.user)
        /\ user_messages[ev.user].last_message = ev.msg.message_id
    /\ AdminPrivate => \A c \in Calls : c.op # "forward"

\* C6: a supported message of an administrator whose pending action is
\* 'reply to user' for u is sent to chat u, unthreaded, and to no group
\* and no other user.
C6_ReplyToUser ==
    (/\ AdminPrivate /\ HadPending /\ ev.msg.kind \in SupportedKinds
     /\ DOMAIN ev.pending = {"action", "target_user_id"}) =>
        /\ \E c \in SendsTo(ev.pending.target_user_id) :
               InBody(ev.msg.text, c) /\ c.kind = ev.msg.kind /\ c.reply_to = NoId
        /\ \A c \in Calls : c.chat \in {ev.pending.target_user_id, ev.user}

\* C7: a reply of an administrator whose pending action names a group that
\* is not in the registry sends nothing to that group, tells the
\* administrator that the target is no longer valid, and leaves no pending
\* action.
C7_TargetInvalid ==
    (/\ AdminPrivate /\ HadPending
     /\ "group_id" \in DOMAIN ev.pending
     /\ ev.pending.group_id \notin DOMAIN groups) =>
        /\ SendsTo(ev.pending.group_id) = {}
        /\ \E c \in SendsTo(ev.user) : InBody("target_group_invalid", c)
        /\ ev.user \notin DOMAIN user_context

\* C8: a message of an administrator with a pending action whose content
\* is neither text nor a recognised media kind sends nothing to the target,
\* and the administrator gets an 'unsupported message type' response and
\* no success confirmation.
C8_Unsupported ==
    (AdminPrivate /\ HadPending /\ ev.msg.kind \notin SupportedKinds) =>
        /\ \A c \in Calls : c.chat = ev.user
        /\ \E c \in SendsTo(ev.user) : InBody("unsupported_message_type", c)
        /\ \A c \in SendsTo(ev.user) :
               ~InBody("sent_to_group", c) /\ ~InBody("reply_sent_to_user", c)

\* C9: a callback query of a non-administrator, whatever its data, changes
\* neither the pending-action store nor the registry, the administrator
\* list or the user-message cache, does not touch the message that carries
\* the control, and is answered with the permission-denied text (unless
\* answering itself raises).
C9_NonAdminActivation ==
    [][(ev'.type = "button" /\ ev.type = "idle" /\ ev'.user \notin Admins) =>
        /\ UNCHANGED <<user_context, groups, admin_ids, user_messages>>
        /\ \A i \in DOMAIN outbox' :
               outbox'[i].op = "answer" /\ outbox'[i].body = <<"need_admin">>
        /\ (ev'.fail = "none") => Len(outbox') = 1]_vars

\* C9 witness: a non-administrator has activated a well-formed reply
\* control while an administrator has a pending action, and got the
\* permission-denied answer.
C9_Witness ==
    /\ ev.type = "button" /\ ev.user \notin Admins
    /\ ActivatesGroup
    /\ DOMAIN user_context # {}
    /\ Len(outbox) = 1 /\ outbox[1].body = <<"need_admin">>

\* C10 (for the updates whose content_type read yields a value): in both
\* fan-outs every administrator the transport delivers to has
\* the forwarded copy and the control message, whichever administrators it
\* does not deliver to.
C10_FailureIsolation ==
    /\ (ev.type = "group" /\ ev.chat \in DOMAIN groups /\ ev.ct_ok) =>
           \A a \in Admins \ ev.F :
               ForwardsTo(a) # {} /\ \E c \in SendsTo(a) : c.markup # <<>>
    /\ (ev.type = "private" /\ ev.user \notin Admins /\ ev.ct_ok) =>
           \A a \in Admins \ ev.F :
               ForwardsTo(a) # {} /\ \E c \in SendsTo(a) : c.markup # <<>>

\* C11: a message in a group whose id is not in the registry is dropped
\* silently: the step that handles it makes no transport call and leaves the
\* registry, the pending-action store, the administrator list and the
\* user-message cache unchanged. (A registry entry has no active flag in the
\* source, so 'inactive' names no further case.)
C11_UnregisteredDropped ==
    [][(ev.type = "idle" /\ ev'.type = "group" /\ ev'.chat \notin DOMAIN groups) =>
        /\ outbox' = <<>>
        /\ UNCHANGED <<groups, user_context, admin_ids, user_messages>>]_vars

\* C11 witness: a message of an unregistered group has been handled, its
\* content_type read having yielded a value, while another group is
\* registered and an administrator has a pending action.
C11_Witness ==
    /\ ev.type = "group" /\ ev.ct_ok
    /\ ev.chat \notin DOMAIN groups
    /\ DOMAIN groups # {}
    /\ DOMAIN user_context # {}
    /\ outbox = <<>>

\* C12: a private message of an administrator gets the help prompt exactly
\* when the administrator has no pending action and the message is not a
\* reply gesture; in every other case the message goes to the handler that
\* routes to the reply dispatcher and gets no help prompt.
C12_HelpOrDispatch ==
    (AdminPrivate /\ ev.ct_ok) =>
        /\ (~HadPending /\ ~ev.is_reply) <=>
               (\E c \in SendsTo(ev.user) : InBody("help", c))
        /\ (HadPending \/ ev.is_reply) =>
               ev.handler = "handle_admin_private_message"

\* The responses an administrator's private message can end in.
AdminResponses ==
    {"reply_sent_to_user", "sent_to_group", "send_failed", "session_expired",
     "target_group_invalid", "unsupported_message_type", "help"}

\* C13: once a private message of an administrator has been handled, the
\* administrator has been sent one of the responses (confirmation, failure
\* report, session expired, target invalid, unsupported type, help).
C13_AlwaysAnswered ==
    (AdminPrivate /\ ev.ct_ok) =>
        \E c \in SendsTo(ev.user) : \E t \in AdminResponses : InBody(t, c)

\* C14: no step removes an administrator; a step that changes the
\* administrator list is an add-administrator command of a current
\* administrator with a numeric id that is not in the list, and it appends
\* exactly that id; the command of a non-administrator, or for an id that is
\* already in the list, leaves the list as it is.
C14_AdminSetChanges ==
    [][/\ Range(admin_ids) \subseteq Range(admin_ids')
       /\ (admin_ids' # admin_ids) =>
            /\ ev.type = "idle" /\ ev'.type = "addadmin"
            /\ ev'.user \in Range(admin_ids)
            /\ Len(ev'.args) >= 1 /\ IsNumeral(ev'.args[1])
            /\ ParseInt(ev'.args[1]) \notin Range(admin_ids)
            /\ admin_ids' = Append(admin_ids, ParseInt(ev'.args[1]))
       /\ (/\ ev.type = "idle" /\ ev'.type = "addadmin"
           /\ \/ ev'.user \notin Range(admin_ids)
              \/ /\ Len(ev'.args) >= 1 /\ IsNumeral(ev'.args[1])
                 /\ ParseInt(ev'.args[1]) \in Range(admin_ids)) =>
            /\ admin_ids' = admin_ids
            /\ Cardinality(Range(admin_ids')) = Cardinality(Range(admin_ids))]_vars

\* C14 witness: administrator 1 has added user 3, and the list, which held
\* administrator 1 only, holds the two of them.
C14_Witness ==
    /\ ev.type = "addadmin" /\ ev.user = 1
    /\ ev.args = <<ToString(3)>>
    /\ admin_ids = <<1, 3>>
    /\ \E c \in SendsTo(1) : InBody("admin_added", c)

\* The step handles /send or /addadmin in one of the error cases: the
\* sender is not an administrator, there is no argument, the id is not a
\* number, or (for /send) the id is not in the registry.
SendError ==
    /\ ev.type = "idle" /\ ev'.type = "send"
    /\ \/ ev'.user \notin Admins
       \/ ev'.args = <<>>
       \/ ~IsNumeral(ev'.args[1])
       \/ ParseInt(ev'.args[1]) \notin DOMAIN groups
AddError ==
    /\ ev.type = "idle" /\ ev'.type = "addadmin"
    /\ \/ ev'.user \notin Admins
       \/ ev'.args = <<>>
       \/ ~IsNumeral(ev'.args[1])

\* The error texts of the two commands.
ErrorTokens ==
    {"need_admin", "no_groups", "group_id_not_a_number", "invalid_group_id",
     "usage", "invalid_user_id"}

\* The step answers /send without argument, from an administrator, while a
\* group is registered.
ChooserCase ==
    /\ ev'.type = "send" /\ ev'.user \in Admins /\ ev'.args = <<>>
    /\ DOMAIN groups # {}

\* The step sends nothing to a group and changes neither the registry, the
\* administrator list nor the pending-action store.
NoGroupSendNoChange ==
    /\ \A i \in DOMAIN outbox' : outbox'[i].chat \notin GroupIds
    /\ UNCHANGED <<groups, admin_ids, user_context>>

C16_PendingGroupRegistered ==
    \A a \in DOMAIN user_context :
        "group_id" \in DOMAIN user_context[a] =>
            user_context[a].group_id \in DOMAIN groups

\* C17: a control activation or a private message of administrator A leaves
\* every other administrator's pending action as it was; and when A, holding
\* a reply-to-user pending action that another administrator holds as well,
\* sends a text, the text is sent to that user.
C17_NoCrossAdmin ==
    [][/\ (ev.type = "idle" /\ ev'.type \in {"button", "private"}
           /\ ev'.user \in Admins) =>
              \A b \in Admins \ {ev'.user} :
                  Get(user_context', b, <<>>) = Get(user_context, b, <<>>)
       /\ (/\ ev.type = "idle" /\ ev'.type = "private" /\ ev'.user \in Admins
           /\ ev'.ct_ok /\ ev'.msg.kind = "text"
           /\ "target_user_id" \in DOMAIN ev'.pending
           /\ \E b \in Admins \ {ev'.user} :
                  b \in DOMAIN user_context /\ user_context[b] = ev'.pending) =>
              \E i \in DOMAIN outbox' :
                  /\ outbox'[i].op = "send"
                  /\ outbox'[i].chat = ev'.pending.target_user_id
                  /\ ev'.msg.text \in Range(outbox'[i].body)]_vars

\* The callback data is one of the three reply controls with numeric ids.
ReplyControl ==
    \/ ActivatesUser
    \/ ActivatesGroup
    \/ /\ StartsWith(ev.data, "user", "reply") /\ Len(ev.data) >= 4
       /\ IsNumeral(ev.data[3]) /\ IsNumeral(ev.data[4])

\* C18: once an administrator's activation of a reply control has been
\* handled, whatever the original message and whether or not handling
\* failed (answering the query itself not being what raised), the query has
\* been answered and the control has been taken off the administrator's
\* copy (the markup was cleared or the message deleted).
C18_ControlRemoved ==
    (/\ ev.type = "button" /\ ev.user \in Admins /\ ReplyControl
     /\ ev.fail # "answer") =>
        /\ \E c \in Calls : c.op = "answer"
        /\ \E c \in Calls : c.op \in {"edit_markup", "delete"}

\* C19: a text of an administrator whose pending action names a registered
\* group g is sent to g, under the recorded message id when the pending
\* action is a reply-to-message one and unthreaded when it is a
\* reply-to-group one, and the report to the administrator has g's title.
C19_ThreadedReply ==
    (/\ AdminPrivate /\ HadPending /\ ev.ct_ok /\ ev.msg.kind = "text"
     /\ "group_id" \in DOMAIN ev.pending
     /\ ev.pending.group_id \in DOMAIN groups) =>
        /\ \E c \in SendsTo(ev.pending.group_id) :
               /\ InBody(ev.msg.text, c)
               /\ c.reply_to = Get(ev.pending, "message_id", NoId)
        /\ \E c \in SendsTo(ev.user) :
               InBody(groups[ev.pending.group_id].title, c)

\* C20: the bot-added-to-group event for a group that is in the registry
\* leaves that group's entry (title, last activity) as it was.
C20_RegisterIdempotent ==
    [][(ev.type = "idle" /\ ev'.type = "new_members"
        /\ ev'.chat \in DOMAIN groups) =>
            groups'[ev'.chat] = groups[ev'.chat]]_vars

C23_SelectGroupInert ==
    [][/\ (/\ ev.type = "idle" /\ ev'.type = "button" /\ ev'.user \in Admins
           /\ StartsWith(ev'.data, "select", "group")) =>
              /\ user_context' = user_context
              /\ IF ev'.fail = "none"
                 THEN outbox' = <<DeleteMessage(ev'.user)>>
                 ELSE outbox' \in {<<>>, <<Answer(ev'.user, "failed")>>}
       /\ \A a \in DOMAIN user_context' :
              Get(user_context'[a], "action", "none") # "send_to_group"
       /\ (ev.type = "idle" /\ ev'.type = "private" /\ ev'.user \in Admins) =>
              \A i \in DOMAIN outbox' : outbox'[i].chat \notin GroupIds]_vars

\* C23 witness: an administrator has activated the selection control of a
\* registered group; the selection message was deleted and the
\* administrator has no pending action.
C23_Witness ==
    /\ ev.type = "button" /\ ev.user \in Admins
    /\ StartsWith(ev.data, "select", "group")
    /\ IsNumeral(ev.data[3]) /\ ParseInt(ev.data[3]) \in DOMAIN groups
    /\ outbox = <<DeleteMessage(ev.user)>>
    /\ ev.user \notin DOMAIN user_context

====
